---- MODULE Spec2Model ----
(***************************************************************************)
(* Model of zarr's chunk key encodings (zarr/core/chunk_key_encodings.py)  *)
(* and bytes codec (zarr/codecs/bytes.py).                                 *)
(*                                                                         *)
(* Python values are modelled as follows.                                  *)
(*   - a str used as a chunk key is a sequence of one-character strings;   *)
(*   - a tuple of ints is a sequence of integers;                          *)
(*   - a call that raises yields a record whose err field names the        *)
(*     exception class, a call that returns has err = "none";              *)
(*   - Endian members, plain strings and None are tagged tuples so that    *)
(*     Endian.little, "little" and None are three different values.        *)
(***************************************************************************)
EXTENDS Integers, Sequences, FiniteSets, TLC

VARIABLES enc, kres, sysEndian, codecs, cres

vars == <<enc, kres, sysEndian, codecs, cres>>

(***************************************************************************)
(* Bounds                                                                  *)
(***************************************************************************)
\* largest chunk coordinate drawn as an input (of two decimal digits)
MaxCoord == 10
\* largest number of chunk coordinates (array dimensions) drawn as an input
MaxRank == 2
\* largest extent of one array dimension drawn as an input
MaxDim == 2
\* largest number of codec instances alive at once
MaxCodecs == 2

(***************************************************************************)
(* str, str.join, str.split and int on chunk keys                          *)
(***************************************************************************)
DigitChars == <<"0", "1", "2", "3", "4", "5", "6", "7", "8", "9">>

IsDigit(ch) == \E d \in 1..10 : DigitChars[d] = ch

DigitVal(ch) == (CHOOSE d \in 1..10 : DigitChars[d] = ch) - 1

\* str(n) for an int n >= 0: its decimal digits
RECURSIVE Str(_)
Str(n) ==
    IF n < 10 THEN <<DigitChars[n + 1]>>
    ELSE Str(n \div 10) \o <<DigitChars[(n % 10) + 1]>>

\* sep.join(pieces), sep a str (sequence of characters)
RECURSIVE Join(_, _)
Join(sep, pieces) ==
    IF pieces = <<>> THEN <<>>
    ELSE IF Len(pieces) = 1 THEN pieces[1]
    ELSE pieces[1] \o sep \o Join(sep, Tail(pieces))

\* s.split(sep) for a one-character sep: "".split(sep) == [""]
RECURSIVE Split(_, _)
Split(s, sep) ==
    IF s = <<>> THEN << <<>> >>
    ELSE LET rest == Split(Tail(s), sep) IN
         IF Head(s) = sep THEN << <<>> >> \o rest
         ELSE << <<Head(s)>> \o Head(rest) >> \o Tail(rest)

RECURSIVE DigitsValue(_)
DigitsValue(p) ==
    IF p = <<>> THEN 0
    ELSE 10 * DigitsValue(SubSeq(p, 1, Len(p) - 1)) + DigitVal(p[Len(p)])

IsDigits(p) == p # <<>> /\ \A i \in 1..Len(p) : IsDigit(p[i])

\* int(p): decimal digits with an optional leading "-"; anything else over
\* the key alphabet (the empty string included) raises ValueError
ParseInt(p) ==
    IF IsDigits(p) THEN [err |-> "none", val |-> DigitsValue(p)]
    ELSE IF p # <<>> /\ Head(p) = "-" /\ IsDigits(Tail(p))
         THEN [err |-> "none", val |-> 0 - DigitsValue(Tail(p))]
    ELSE [err |-> "ValueError", val |-> 0]

\* tuple(map(int, pieces)): the first piece that fails raises
MapInt(pieces) ==
    LET parsed == [i \in 1..Len(pieces) |-> ParseInt(pieces[i])] IN
    IF \E i \in 1..Len(pieces) : parsed[i].err # "none"
    THEN [err |-> "ValueError", val |-> <<>>]
    ELSE [err |-> "none", val |-> [i \in 1..Len(pieces) |-> parsed[i].val]]

MapStr(coords) == [i \in 1..Len(coords) |-> Str(coords[i])]

(***************************************************************************)
(* Chunk key encodings                                                     *)
(***************************************************************************)
SeparatorLiteral == {".", "/"}

\* separators no encoding should accept
BadSeparators == {"-"}

NoEnc == [cls |-> "None"]

parse_separator(data) ==
    IF data \notin SeparatorLiteral
    THEN [err |-> "ValueError", val |-> data]
    ELSE [err |-> "none", val |-> data]

\* ChunkKeyEncoding.__init__(self, *, separator): only `separator` is set,
\* the `name` field has no default and stays unset on a base instance
ChunkKeyEncoding_init(kwargs) ==
    IF "separator" \notin DOMAIN kwargs
    THEN [err |-> "TypeError", val |-> NoEnc]
    ELSE LET separator_parsed == parse_separator(kwargs.separator) IN
         IF separator_parsed.err # "none"
         THEN [err |-> separator_parsed.err, val |-> NoEnc]
         ELSE [err |-> "none",
               val |-> [cls |-> "ChunkKeyEncoding",
                        separator |-> separator_parsed.val]]

\* The subclasses are @dataclass(frozen=True) classes that declare a field
\* and define no __init__ of their own, so the decorator generates
\* __init__(self, name=<default>, separator=".") for them, which stores its
\* arguments and does not call ChunkKeyEncoding.__init__.
DataclassInit(cls, name, kwargs) ==
    [err |-> "none",
     val |-> [cls |-> cls,
              name |-> name,
              separator |-> IF "separator" \in DOMAIN kwargs
                            THEN kwargs.separator ELSE "."]]

DefaultChunkKeyEncoding(kwargs) ==
    DataclassInit("DefaultChunkKeyEncoding", "default", kwargs)

V2ChunkKeyEncoding(kwargs) ==
    DataclassInit("V2ChunkKeyEncoding", "v2", kwargs)

\* parse_named_configuration(data, require_configuration=False): the name
\* and the configuration, None when the key is absent
parse_named_configuration(data, expected_name, require_configuration) ==
    IF "name" \notin DOMAIN data
    THEN [err |-> "ValueError", name |-> "", hasConfig |-> FALSE, config |-> <<>>]
    ELSE IF expected_name # "" /\ data.name # expected_name
    THEN [err |-> "ValueError", name |-> "", hasConfig |-> FALSE, config |-> <<>>]
    ELSE IF "configuration" \in DOMAIN data
    THEN [err |-> "none", name |-> data.name, hasConfig |-> TRUE,
          config |-> data.configuration]
    ELSE IF require_configuration
    THEN [err |-> "ValueError", name |-> "", hasConfig |-> FALSE, config |-> <<>>]
    ELSE [err |-> "none", name |-> data.name, hasConfig |-> FALSE, config |-> <<>>]

\* from_dict with the two default separators exchanged
ChunkKeyEncoding_from_dict_SwappedDefaults(data) ==
    IF "cls" \in DOMAIN data
    THEN [err |-> "none", val |-> data]
    ELSE LET p == parse_named_configuration(data, "", FALSE) IN
         IF p.err # "none" THEN [err |-> p.err, val |-> NoEnc]
         ELSE IF p.name = "default"
         THEN DefaultChunkKeyEncoding(
                  IF ~p.hasConfig THEN [separator |-> "."] ELSE p.config)
         ELSE IF p.name = "v2"
         THEN V2ChunkKeyEncoding(
                  IF ~p.hasConfig THEN [separator |-> "/"] ELSE p.config)
         ELSE [err |-> "ValueError", val |-> NoEnc]

ChunkKeyEncoding_from_dict(data) ==
    IF "cls" \in DOMAIN data
    THEN [err |-> "none", val |-> data]
    ELSE LET p == parse_named_configuration(data, "", FALSE) IN
         IF p.err # "none" THEN [err |-> p.err, val |-> NoEnc]
         ELSE IF p.name = "default"
         THEN DefaultChunkKeyEncoding(
                  IF ~p.hasConfig THEN [separator |-> "/"] ELSE p.config)
         ELSE IF p.name = "v2"
         THEN V2ChunkKeyEncoding(
                  IF ~p.hasConfig THEN [separator |-> "."] ELSE p.config)
         ELSE [err |-> "ValueError", val |-> NoEnc]

ChunkKeyEncoding_to_dict(self) ==
    [name |-> self.name, configuration |-> [separator |-> self.separator]]

Default_encode_chunk_key(self, chunk_coords) ==
    \* str("c") is "c"
    Join(<<self.separator>>, << <<"c">> >> \o MapStr(chunk_coords))

Default_decode_chunk_key(self, chunk_key) ==
    IF chunk_key = <<"c">> THEN [err |-> "none", val |-> <<>>]
    ELSE MapInt(Split(SubSeq(chunk_key, 2, Len(chunk_key)), self.separator))

\* encode_chunk_key that joins with "." whatever the separator
V2_encode_chunk_key_DotOnly(self, chunk_coords) ==
    LET chunk_identifier == Join(<<".">>, MapStr(chunk_coords)) IN
    IF chunk_identifier = <<>> THEN <<"0">> ELSE chunk_identifier

V2_encode_chunk_key(self, chunk_coords) ==
    LET chunk_identifier == Join(<<self.separator>>, MapStr(chunk_coords)) IN
    IF chunk_identifier = <<>> THEN <<"0">> ELSE chunk_identifier

\* decode_chunk_key that maps "0" back to the empty tuple
V2_decode_chunk_key_Symmetric(self, chunk_key) ==
    IF chunk_key = <<"0">> THEN [err |-> "none", val |-> <<>>]
    ELSE MapInt(Split(chunk_key, self.separator))

V2_decode_chunk_key(self, chunk_key) ==
    MapInt(Split(chunk_key, self.separator))

encode_chunk_key(self, chunk_coords) ==
    IF self.cls = "DefaultChunkKeyEncoding"
    THEN Default_encode_chunk_key(self, chunk_coords)
    ELSE V2_encode_chunk_key(self, chunk_coords)

decode_chunk_key(self, chunk_key) ==
    IF self.cls = "DefaultChunkKeyEncoding"
    THEN Default_decode_chunk_key(self, chunk_key)
    ELSE V2_decode_chunk_key(self, chunk_key)

(***************************************************************************)
(* Inputs of the chunk key encoding operations                             *)
(***************************************************************************)
Separators == SeparatorLiteral \cup BadSeparators

SeqsUpTo(S, n) == UNION {[1..k -> S] : k \in 0..n}

\* chunk coordinates drawn as inputs: zero, one-digit and two-digit ones
CoordValues == {0, 1, 9, MaxCoord}

ChunkCoords == SeqsUpTo(CoordValues, MaxRank)

\* keys decoded without having been encoded first
KeyLiterals == {<<"c">>, <<"0">>, <<>>}

\* keyword arguments of a constructor call
SeparatorKwargs == {[separator |-> s] : s \in Separators}

\* dictionaries handed to ChunkKeyEncoding.from_dict
EncodingNames == {"default", "v2", "bytes"}

EncodingDicts ==
    {[name |-> n] : n \in EncodingNames}
    \cup {[name |-> n, configuration |-> c] :
             n \in EncodingNames, c \in SeparatorKwargs}

KInit == [op |-> "none"]

(***************************************************************************)
(* Operations on chunk key encodings.  enc is the encoding instance the    *)
(* caller currently holds, kres the last call and its outcome.             *)
(***************************************************************************)
\* the encoding the caller holds after a call that returned r.val or raised
Held(r) == IF r.err = "none" THEN r.val ELSE enc

Constructed(cls, kwargs, r) ==
    [op |-> "construct", cls |-> cls, kwargs |-> kwargs,
     err |-> r.err, out |-> r.val]

NewChunkKeyEncoding ==
    /\ \E kwargs \in SeparatorKwargs :
         LET r == ChunkKeyEncoding_init(kwargs) IN
         /\ enc' = Held(r)
         /\ kres' = Constructed("ChunkKeyEncoding", kwargs, r)
    /\ UNCHANGED <<sysEndian, codecs, cres>>

NewDefaultChunkKeyEncoding ==
    /\ \E kwargs \in SeparatorKwargs \cup {<<>>} :
         LET r == DefaultChunkKeyEncoding(kwargs) IN
         /\ enc' = Held(r)
         /\ kres' = Constructed("DefaultChunkKeyEncoding", kwargs, r)
    /\ UNCHANGED <<sysEndian, codecs, cres>>

NewV2ChunkKeyEncoding ==
    /\ \E kwargs \in SeparatorKwargs \cup {<<>>} :
         LET r == V2ChunkKeyEncoding(kwargs) IN
         /\ enc' = Held(r)
         /\ kres' = Constructed("V2ChunkKeyEncoding", kwargs, r)
    /\ UNCHANGED <<sysEndian, codecs, cres>>

FromDict ==
    /\ \E data \in (EncodingDicts \cup {enc}) \ {NoEnc} :
         LET r == ChunkKeyEncoding_from_dict(data) IN
         /\ enc' = Held(r)
         /\ kres' = [op |-> "from_dict", data |-> data,
                     err |-> r.err, out |-> r.val]
    /\ UNCHANGED <<sysEndian, codecs, cres>>

IsConcrete(e) == e.cls \in {"DefaultChunkKeyEncoding", "V2ChunkKeyEncoding"}

EncodeChunkKey ==
    /\ IsConcrete(enc)
    /\ \E chunk_coords \in ChunkCoords :
           kres' = [op |-> "encode", self |-> enc, coords |-> chunk_coords,
                    key |-> encode_chunk_key(enc, chunk_coords)]
    /\ UNCHANGED <<enc, sysEndian, codecs, cres>>

\* decode the key the last encode_chunk_key call produced, by the encoding
\* that produced it
DecodeEncodedKey ==
    /\ kres.op = "encode"
    /\ enc = kres.self
    /\ LET r == decode_chunk_key(enc, kres.key) IN
       kres' = [op |-> "decode", self |-> enc, key |-> kres.key,
                encoded |-> TRUE, coords |-> kres.coords,
                err |-> r.err, out |-> r.val]
    /\ UNCHANGED <<enc, sysEndian, codecs, cres>>

\* decode a key that comes from a listing of the store
DecodeListedKey ==
    /\ IsConcrete(enc)
    /\ \E chunk_key \in KeyLiterals :
         LET r == decode_chunk_key(enc, chunk_key) IN
         kres' = [op |-> "decode", self |-> enc, key |-> chunk_key,
                  encoded |-> FALSE, coords |-> <<>>,
                  err |-> r.err, out |-> r.val]
    /\ UNCHANGED <<enc, sysEndian, codecs, cres>>

(***************************************************************************)
(* Bytes codec: values                                                     *)
(***************************************************************************)
None == <<"None">>

\* a member of the Endian enum
Endian(value) == <<"Endian", value>>

\* a plain str
StrV(value) == <<"str", value>>

EndianValues == {"big", "little"}

\* Endian(sys.byteorder), fixed when the module is imported
default_system_endian == Endian(sysEndian)

\* parse_enum(data, Endian): a member is returned as is, a str is looked
\* up among the members' names
parse_enum(data) ==
    IF data[1] = "Endian" THEN [err |-> "none", val |-> data]
    ELSE IF data[1] # "str" THEN [err |-> "TypeError", val |-> None]
    ELSE IF data[2] \in EndianValues
    THEN [err |-> "none", val |-> Endian(data[2])]
    ELSE [err |-> "ValueError", val |-> None]

BytesCodec_init(kwargs) ==
    LET endian == IF "endian" \in DOMAIN kwargs
                  THEN kwargs.endian ELSE default_system_endian
        endian_parsed == IF endian = None
                         THEN [err |-> "none", val |-> None]
                         ELSE parse_enum(endian)
    IN  [err |-> endian_parsed.err, val |-> [endian |-> endian_parsed.val]]

BytesCodec_from_dict(data) ==
    LET p == parse_named_configuration(data, "bytes", FALSE) IN
    IF p.err # "none" THEN [err |-> p.err, val |-> [endian |-> None]]
    ELSE LET configuration_parsed == IF p.hasConfig THEN p.config ELSE <<>>
         IN  BytesCodec_init(configuration_parsed)

BytesCodec_to_dict(self) ==
    IF self.endian # None
    THEN [name |-> "bytes",
          configuration |-> [endian |-> StrV(self.endian[2])]]
    ELSE [name |-> "bytes"]

\* evolve_from_array_spec that returns self for item size 0 without
\* clearing endian
evolve_from_array_spec_KeepsEndian(self, array_spec) ==
    IF array_spec.itemsize = 0
    THEN [err |-> "none", same |-> TRUE, val |-> self]
    ELSE IF self.endian = None
    THEN [err |-> "ValueError", same |-> TRUE, val |-> self]
    ELSE [err |-> "none", same |-> TRUE, val |-> self]

\* evolve_from_array_spec without the check for a missing endian
evolve_from_array_spec_Unchecked(self, array_spec) ==
    IF array_spec.itemsize = 0
    THEN IF self.endian # None
         THEN [err |-> "none", same |-> FALSE,
               val |-> BytesCodec_init([endian |-> None]).val]
         ELSE [err |-> "none", same |-> TRUE, val |-> self]
    ELSE [err |-> "none", same |-> TRUE, val |-> self]

\* evolve_from_array_spec that clears endian on self instead of on a copy
evolve_from_array_spec_InPlace(self, array_spec) ==
    IF array_spec.itemsize = 0
    THEN [err |-> "none", same |-> TRUE, val |-> [self EXCEPT !.endian = None]]
    ELSE IF self.endian = None
    THEN [err |-> "ValueError", same |-> TRUE, val |-> self]
    ELSE [err |-> "none", same |-> TRUE, val |-> self]

\* evolve_from_array_spec: `same` tells whether the call returns self, val
\* is the returned codec (when same, the receiver as the call leaves it).
\* replace(self, endian=None) constructs BytesCodec(endian=None).
evolve_from_array_spec(self, array_spec) ==
    IF array_spec.itemsize = 0
    THEN IF self.endian # None
         THEN [err |-> "none", same |-> FALSE,
               val |-> BytesCodec_init([endian |-> None]).val]
         ELSE [err |-> "none", same |-> TRUE, val |-> self]
    ELSE IF self.endian = None
    THEN [err |-> "ValueError", same |-> TRUE, val |-> self]
    ELSE [err |-> "none", same |-> TRUE, val |-> self]

compute_encoded_size(input_byte_length, chunk_spec) == input_byte_length

(***************************************************************************)
(* Typed arrays and byte buffers.  A buffer is a sequence of bytes.  A     *)
(* typed array is its shape, its item size, the byte order of its items    *)
(* in memory and its memory in row-major order.  The value of an item is   *)
(* its bytes, most significant first.                                      *)
(***************************************************************************)
RECURSIVE Product(_)
Product(shape) ==
    IF shape = <<>> THEN 1 ELSE Head(shape) * Product(Tail(shape))

RECURSIVE Concat(_)
Concat(seqs) ==
    IF seqs = <<>> THEN <<>> ELSE Head(seqs) \o Concat(Tail(seqs))

Reverse(s) == [i \in 1..Len(s) |-> s[Len(s) + 1 - i]]

\* the memory of one item of the given value in the given byte order
Layout(value, order) == IF order = "little" THEN Reverse(value) ELSE value

Item(arr, i) ==
    SubSeq(arr.mem, (i - 1) * arr.itemsize + 1, i * arr.itemsize)

Count(arr) == Len(arr.mem) \div arr.itemsize

\* the items' values, row-major
Values(arr) == [i \in 1..Count(arr) |-> Layout(Item(arr, i), arr.byteorder)]

\* NDBuffer.byteorder
byteorder(arr) == Endian(arr.byteorder)

\* chunk_array.astype(chunk_array.dtype.newbyteorder(order)): a copy with
\* the same values stored in the given byte order
astype(arr, order) ==
    [arr EXCEPT !.byteorder = order,
                !.mem = Concat([i \in 1..Count(arr) |->
                                  Layout(Values(arr)[i], order)])]

\* as_ndarray_like().ravel().view(dtype="b"): the memory, row-major
ravel_bytes(arr) == arr.mem

\* view(dtype) of a flat byte array: the length must be a multiple of the
\* item size (positive here); the result is one-dimensional
view(buf, itemsize, order) ==
    IF Len(buf) % itemsize # 0
    THEN [err |-> "ValueError", val |-> <<>>]
    ELSE [err |-> "none",
          val |-> [shape |-> <<Len(buf) \div itemsize>>, itemsize |-> itemsize,
                   byteorder |-> order, mem |-> buf]]

reshape(arr, shape) ==
    IF Product(shape) # Product(arr.shape)
    THEN [err |-> "ValueError", val |-> <<>>]
    ELSE [err |-> "none", val |-> [arr EXCEPT !.shape = shape]]

decode_prefix(self, chunk_spec) ==
    IF chunk_spec.itemsize > 0
    THEN IF self.endian = Endian("little") THEN "<" ELSE ">"
    ELSE "|"

PrefixOrder(prefix) == IF prefix = "<" THEN "little" ELSE "big"

decode_single(self, chunk_bytes, chunk_spec) ==
    LET prefix == decode_prefix(self, chunk_spec)
        viewed == view(chunk_bytes, chunk_spec.itemsize, PrefixOrder(prefix))
    IN  IF viewed.err # "none" THEN viewed
        ELSE IF viewed.val.shape # chunk_spec.shape
        THEN reshape(viewed.val, chunk_spec.shape)
        ELSE viewed

\* encode_single that never converts the byte order
encode_single_NoConversion(self, chunk_array, chunk_spec) ==
    ravel_bytes(chunk_array)

encode_single(self, chunk_array, chunk_spec) ==
    LET converted ==
            IF /\ chunk_array.itemsize > 1
               /\ self.endian # None
               /\ self.endian # byteorder(chunk_array)
            THEN astype(chunk_array, self.endian[2])
            ELSE chunk_array
    IN  ravel_bytes(converted)

(***************************************************************************)
(* Inputs of the bytes codec operations                                    *)
(***************************************************************************)
\* item sizes of the numeric types, and 0 for the types without byte order
ItemSizes == {1, 2, 4, 8}

SpecItemSizes == ItemSizes \cup {0}

\* shapes of the input arrays, two of them without items
Shapes == SeqsUpTo(1..MaxDim, MaxRank) \cup {<<0>>, <<MaxDim, 0>>}

\* the value of item i of an input array of item size k: "ramp" gives
\* every byte of the array a different value, "count" gives item i the
\* number i
Fills == {"ramp", "count"}

ItemValue(fill, k, i) ==
    IF fill = "ramp" THEN [j \in 1..k |-> ((i - 1) * k + j) % 256]
    ELSE [j \in 1..k |-> IF j = k THEN i ELSE 0]

ArraysOf(shape, k, order) ==
    {[shape |-> shape, itemsize |-> k, byteorder |-> order,
      mem |-> Concat([i \in 1..Product(shape) |->
                        Layout(ItemValue(fill, k, i), order)])] :
        fill \in Fills}

Arrays ==
    UNION {ArraysOf(shape, k, order) :
             shape \in Shapes, k \in ItemSizes, order \in EndianValues}

\* keyword arguments of BytesCodec(...)
CodecKwargs ==
    {<<>>, [endian |-> None]}
    \cup {[endian |-> Endian(v)] : v \in EndianValues}
    \cup {[endian |-> StrV(v)] : v \in EndianValues \cup {"native"}}

\* dictionaries handed to BytesCodec.from_dict
CodecDicts ==
    {[name |-> n] : n \in {"bytes", "endian"}}
    \cup {[name |-> "bytes", configuration |-> c] :
             c \in {[endian |-> StrV(v)] : v \in EndianValues \cup {"native"}}}

CInit == [op |-> "none"]

(***************************************************************************)
(* Operations on bytes codecs.  codecs is the heap of codec instances, an  *)
(* instance is identified by its index; cres is the last call and its      *)
(* outcome.                                                                *)
(***************************************************************************)
\* the heap after a call that returned the new instance r.val, or raised
Allocate(r) == IF r.err = "none" THEN Append(codecs, r.val) ELSE codecs

Allocated(r) == IF r.err = "none" THEN Len(codecs) + 1 ELSE 0

NewBytesCodec ==
    /\ Len(codecs) < MaxCodecs
    /\ \E kwargs \in CodecKwargs :
         LET r == BytesCodec_init(kwargs) IN
         /\ codecs' = Allocate(r)
         /\ cres' = [op |-> "construct", kwargs |-> kwargs,
                     err |-> r.err, out |-> Allocated(r)]
    /\ UNCHANGED <<enc, kres, sysEndian>>

BytesFromDict ==
    /\ Len(codecs) < MaxCodecs
    /\ \E data \in CodecDicts :
         LET r == BytesCodec_from_dict(data) IN
         /\ codecs' = Allocate(r)
         /\ cres' = [op |-> "from_dict", self |-> 0, data |-> data,
                     err |-> r.err, out |-> Allocated(r)]
    /\ UNCHANGED <<enc, kres, sysEndian>>

\* BytesCodec.from_dict(codec.to_dict()) for a live codec
BytesToDictFromDict ==
    /\ Len(codecs) < MaxCodecs
    /\ \E i \in 1..Len(codecs) :
         LET data == BytesCodec_to_dict(codecs[i])
             r == BytesCodec_from_dict(data)
         IN  /\ codecs' = Allocate(r)
             /\ cres' = [op |-> "from_dict", self |-> i, data |-> data,
                         err |-> r.err, out |-> Allocated(r)]
    /\ UNCHANGED <<enc, kres, sysEndian>>

Evolve ==
    /\ \E i \in 1..Len(codecs), itemsize \in SpecItemSizes :
         LET r == evolve_from_array_spec(codecs[i], [itemsize |-> itemsize])
         IN  /\ r.same \/ Len(codecs) < MaxCodecs
             /\ codecs' = IF r.same THEN [codecs EXCEPT ![i] = r.val]
                           ELSE Append(codecs, r.val)
             /\ cres' = [op |-> "evolve", self |-> i, itemsize |-> itemsize,
                         err |-> r.err,
                         out |-> IF r.err # "none" THEN 0
                                 ELSE IF r.same THEN i ELSE Len(codecs) + 1]
    /\ UNCHANGED <<enc, kres, sysEndian>>

ComputeEncodedSize ==
    /\ \E i \in 1..Len(codecs), n \in 0..(MaxDim * 8) :
         cres' = [op |-> "size", self |-> i, n |-> n,
                  out |-> compute_encoded_size(n, [itemsize |-> 1])]
    /\ UNCHANGED <<enc, kres, sysEndian, codecs>>

SpecOf(arr) == [shape |-> arr.shape, itemsize |-> arr.itemsize]

Encode ==
    /\ \E i \in 1..Len(codecs), chunk_array \in Arrays :
         cres' = [op |-> "encode", self |-> i, array |-> chunk_array,
                  buf |-> encode_single(codecs[i], chunk_array,
                                        SpecOf(chunk_array))]
    /\ UNCHANGED <<enc, kres, sysEndian, codecs>>

\* shapes a buffer of the array's bytes is decoded into: the array's own
\* and one of a different item count
DecodeShapes(arr) == {arr.shape, <<Product(arr.shape) + 1>>}

\* decode the buffer the last encode call produced, by the codec that
\* produced it
Decode ==
    /\ cres.op = "encode"
    /\ \E shape \in DecodeShapes(cres.array) :
         LET chunk_spec == [shape |-> shape,
                            itemsize |-> cres.array.itemsize]
             r == decode_single(codecs[cres.self], cres.buf, chunk_spec)
         IN  cres' = [op |-> "decode", self |-> cres.self,
                      array |-> cres.array, buf |-> cres.buf,
                      spec |-> chunk_spec, err |-> r.err, out |-> r.val]
    /\ UNCHANGED <<enc, kres, sysEndian, codecs>>

(***************************************************************************)
(* Specifications                                                          *)
(***************************************************************************)
Init ==
    /\ enc = NoEnc
    /\ kres = KInit
    /\ sysEndian \in EndianValues
    /\ codecs = <<>>
    /\ cres = CInit

NextKey ==
    \/ NewChunkKeyEncoding
    \/ NewDefaultChunkKeyEncoding
    \/ NewV2ChunkKeyEncoding
    \/ FromDict
    \/ EncodeChunkKey
    \/ DecodeEncodedKey
    \/ DecodeListedKey

NextCodec ==
    \/ NewBytesCodec
    \/ BytesFromDict
    \/ BytesToDictFromDict
    \/ Evolve
    \/ ComputeEncodedSize

\* a codec has been constructed
InitBytes ==
    /\ enc = NoEnc
    /\ kres = KInit
    /\ sysEndian \in EndianValues
    /\ codecs \in {<<BytesCodec_init(kwargs).val>> :
                      kwargs \in {k \in CodecKwargs :
                                     BytesCodec_init(k).err = "none"}}
    /\ cres = CInit

NextBytes ==
    \/ Encode
    \/ Decode

SpecKey == Init /\ [][NextKey]_vars

SpecCodec == Init /\ [][NextCodec]_vars

SpecBytes == InitBytes /\ [][NextBytes]_vars

(***************************************************************************)
(* Properties                                                              *)
(***************************************************************************)
IsDefault(e) == e.cls = "DefaultChunkKeyEncoding"

IsV2(e) == e.cls = "V2ChunkKeyEncoding"

ValidSeparator(e) == e.separator \in SeparatorLiteral

\* a decode_chunk_key call on the key that the same encoding produced from
\* a non-empty tuple of coordinates
RoundTripped ==
    /\ kres.op = "decode"
    /\ kres.encoded
    /\ kres.coords # <<>>
    /\ ValidSeparator(kres.self)

\* C1: for the Default encoding with separator "." or "/", decoding the key
\* encoded from a non-empty tuple of coordinates returns that tuple.
C1_DefaultRoundTrip ==
    (RoundTripped /\ IsDefault(kres.self))
        => (kres.err = "none" /\ kres.out = kres.coords)

\* C2: BytesCodec.from_dict(c.to_dict()) succeeds and equals c by value, for
\* endian little, big and absent; a codec without endian serializes without
\* a configuration key.
C2_FromDictToDict ==
    (cres.op = "from_dict" /\ cres.self # 0)
        => /\ cres.err = "none"
           /\ cres.out # 0
           /\ codecs[cres.out] = codecs[cres.self]
           /\ (codecs[cres.self].endian = None
                 => "configuration" \notin DOMAIN cres.data)

\* a constructor or from_dict call that was handed the separator sep
CalledWithSeparator(sep) ==
    \/ /\ kres.op = "construct"
       /\ "separator" \in DOMAIN kres.kwargs
       /\ kres.kwargs.separator = sep
    \/ /\ kres.op = "from_dict"
       /\ "cls" \notin DOMAIN kres.data
       /\ kres.data.name \in {"default", "v2"}
       /\ "configuration" \in DOMAIN kres.data
       /\ kres.data.configuration.separator = sep

\* C3: constructing an encoding with a separator other than "." and "/"
\* fails, and no encoding instance holds such a separator.
C3_SeparatorValidated ==
    /\ \A sep \in BadSeparators : CalledWithSeparator(sep) => kres.err # "none"
    /\ enc # NoEnc => ValidSeparator(enc)

\* the codec a bytes call was made on
Self == codecs[cres.self]

\* the bytes of the values in the given byte order, row-major
Bytes(values, order) ==
    Concat([i \in 1..Len(values) |-> Layout(values[i], order)])

\* C4: for a codec with endian little or big and an array of item size 1,
\* 2, 4 or 8 in either byte order, the encoded buffer has
\* product(shape) * item_size bytes laid out in the codec's byte order, and
\* decoding it with the array's shape and dtype gives an array of that shape
\* with the same items.
C4_BytesRoundTrip ==
    /\ (cres.op \in {"encode", "decode"} /\ Self.endian # None)
         => /\ Len(cres.buf)
                 = Product(cres.array.shape) * cres.array.itemsize
            /\ cres.buf = Bytes(Values(cres.array), Self.endian[2])
    /\ (cres.op = "decode" /\ Self.endian # None
           /\ cres.spec = SpecOf(cres.array))
         => /\ cres.err = "none"
            /\ cres.out.shape = cres.array.shape
            /\ cres.out.itemsize = cres.array.itemsize
            /\ Values(cres.out) = Values(cres.array)

\* a two-dimensional array of several 8-byte items was converted to the
\* codec's byte order and decoded again
C4_Witness ==
    /\ cres.op = "decode"
    /\ cres.err = "none"
    /\ Self.endian # None
    /\ Self.endian # byteorder(cres.array)
    /\ cres.array.itemsize = 8
    /\ Len(cres.array.shape) = 2
    /\ Product(cres.array.shape) >= 2
    /\ cres.spec = SpecOf(cres.array)
    /\ cres.buf # cres.array.mem

\* C5: for item size 0, evolve_from_array_spec returns a codec without
\* endian, whatever the endian of the receiver.
C5_EvolveZeroWidth ==
    (cres.op = "evolve" /\ cres.itemsize = 0)
        => /\ cres.err = "none"
           /\ cres.out # 0
           /\ codecs[cres.out].endian = None

\* a codec with an endian was evolved for item size 0
C5_Witness ==
    /\ cres.op = "evolve"
    /\ cres.itemsize = 0
    /\ Self.endian \in {Endian("big"), Endian("little")}
    /\ cres.out # 0

\* C6: for item size > 0, evolve_from_array_spec on a codec without endian
\* raises and returns no codec.
C6_EvolveNeedsEndian ==
    (cres.op = "evolve" /\ cres.itemsize > 0 /\ Self.endian = None)
        => (cres.err = "ValueError" /\ cres.out = 0)

\* a codec without endian was evolved for a multi-byte item type
C6_Witness ==
    /\ cres.op = "evolve"
    /\ cres.itemsize = 4
    /\ Self.endian = None
    /\ cres.err # "none"

\* C7: for the V2 encoding with separator "." or "/", the empty tuple is
\* encoded as "0" and "0" is decoded as (0,): decoding the key of the empty
\* tuple does not give the empty tuple back, and () and (0,) share a key.
C7_V2ZeroDimensional ==
    /\ (kres.op = "encode" /\ IsV2(kres.self) /\ ValidSeparator(kres.self)
           /\ kres.coords \in {<<>>, <<0>>})
         => kres.key = <<"0">>
    /\ (kres.op = "decode" /\ IsV2(kres.self) /\ ValidSeparator(kres.self)
           /\ kres.key = <<"0">>)
         => (kres.err = "none" /\ kres.out = <<0>>)
    /\ (kres.op = "decode" /\ IsV2(kres.self) /\ ValidSeparator(kres.self)
           /\ kres.encoded /\ kres.coords = <<>>)
         => (kres.key = <<"0">> /\ kres.out # kres.coords)

\* the key of the empty tuple was decoded by a V2 encoding
C7_Witness ==
    /\ kres.op = "decode"
    /\ IsV2(kres.self)
    /\ ValidSeparator(kres.self)
    /\ kres.encoded
    /\ kres.coords = <<>>
    /\ kres.out = <<0>>

\* the number of characters of the key that are the separator
SeparatorCount(key, sep) == Cardinality({i \in 1..Len(key) : key[i] = sep})

\* C8: for the V2 encoding with separator "." or "/", decoding the key
\* encoded from a non-empty tuple of coordinates returns that tuple, and the
\* key is the coordinates' decimal strings joined by the separator, without
\* a marker.
C8_V2RoundTrip ==
    /\ (RoundTripped /\ IsV2(kres.self))
         => (kres.err = "none" /\ kres.out = kres.coords)
    /\ (kres.op = "encode" /\ IsV2(kres.self) /\ ValidSeparator(kres.self)
           /\ kres.coords # <<>>)
         => /\ \A i \in 1..Len(kres.key) :
                  IsDigit(kres.key[i]) \/ kres.key[i] = kres.self.separator
            /\ SeparatorCount(kres.key, kres.self.separator)
                  = Len(kres.coords) - 1
            /\ Split(kres.key, kres.self.separator) = MapStr(kres.coords)

\* a V2 key of two coordinates, one of them of two digits, was decoded
C8_Witness ==
    /\ RoundTripped
    /\ IsV2(kres.self)
    /\ Len(kres.coords) = 2
    /\ kres.coords[1] = MaxCoord
    /\ kres.err = "none"

\* a from_dict call on a dictionary (not on an encoding instance)
FromDictCalled == kres.op = "from_dict" /\ "cls" \notin DOMAIN kres.data

HasConfiguration == "configuration" \in DOMAIN kres.data

\* C9: from_dict dispatches on the name: "default" without configuration
\* gives a Default encoding with separator "/", "v2" without configuration
\* a V2 encoding with separator ".", a given configuration's separator is
\* used as is, and any other name raises without producing an encoding.
C9_FromDictDispatch ==
    FromDictCalled =>
        /\ kres.data.name = "default"
             => /\ kres.err = "none"
                /\ IsDefault(kres.out)
                /\ kres.out.separator =
                      IF HasConfiguration
                      THEN kres.data.configuration.separator ELSE "/"
        /\ kres.data.name = "v2"
             => /\ kres.err = "none"
                /\ IsV2(kres.out)
                /\ kres.out.separator =
                      IF HasConfiguration
                      THEN kres.data.configuration.separator ELSE "."
        /\ kres.data.name \notin {"default", "v2"}
             => (kres.err = "ValueError" /\ kres.out = NoEnc)

\* from_dict was called with the name "default" and no configuration, and
\* the caller holds the encoding it returned
C9_Witness ==
    /\ FromDictCalled
    /\ kres.data.name = "default"
    /\ ~HasConfiguration
    /\ enc = kres.out
    /\ IsDefault(enc)

\* evolve_from_array_spec has nothing to change for this receiver and spec
NoChangeNeeded(self, itemsize) ==
    \/ itemsize = 0 /\ self.endian = None
    \/ itemsize > 0 /\ self.endian # None

\* C10: no call changes an existing codec instance; an evolve call that
\* returns gives the receiver itself when no change is needed and otherwise
\* a new instance without endian.
C10_EvolveFrame ==
    [][/\ \A i \in 1..Len(codecs) :
             i <= Len(codecs') /\ codecs'[i] = codecs[i]
       /\ (Evolve /\ cres'.err = "none")
            => IF NoChangeNeeded(codecs[cres'.self], cres'.itemsize)
               THEN cres'.out = cres'.self
               ELSE /\ cres'.out \notin 1..Len(codecs)
                    /\ cres'.out \in 1..Len(codecs')
                    /\ codecs'[cres'.out].endian = None]_vars

\* an evolve call returned a new instance and the receiver kept its endian
C10_Witness ==
    /\ cres.op = "evolve"
    /\ cres.err = "none"
    /\ cres.out # cres.self
    /\ Self.endian # None
    /\ codecs[cres.out].endian = None

====
